---- MODULE Spec2Model ----
(***************************************************************************)
(* Model of backend/server.py: the chat relay that keeps one conversation  *)
(* log per session id, either as an S3 object or as a local JSON file.     *)
(*                                                                         *)
(* Strings that the code takes apart or puts together (session ids,        *)
(* storage keys, file paths) are sequences of one-character strings, so    *)
(* that formatting and path resolution are computed, not assumed.  A JSON  *)
(* text is a sequence of tokens: "[" , one token per array element, "]".   *)
(*                                                                         *)
(* Each HTTP request is one process p in 1..nreq.  Requests are numbered   *)
(* in arrival order.  The service runs as several instances at once (the   *)
(* Lambda package built by deploy.py, or several workers), so requests     *)
(* interleave at every access to the store or to the model endpoint.       *)
(***************************************************************************)
EXTENDS Integers, Sequences, FiniteSets, TLC

(* ------------------------------ bounds -------------------------------- *)

\* Number of HTTP requests issued in one behaviour of Spec.
MaxReqs == 2

\* Number of HTTP requests issued in one behaviour of SpecWindow.
WindowReqs == 1

\* Longest pre-existing log that SpecWindow starts from.
MaxHistory == 25

(* --------------------------- program constants ------------------------ *)

\* conversation[-20:]
Window == 20

\* os.getenv("MEMORY_DIR", "../memory")
MEMORY_DIR == <<".", ".", "/", "m", "e", "m", "o", "r", "y">>

\* context.prompt(): the fixed system instruction
prompt == "You are a digital twin."

None == <<"None">>

(* ------------------------------ inputs -------------------------------- *)

\* Values of ChatRequest.session_id a caller sends: absent, the empty
\* string, a plain id, and an id written with a leading "./".
CallerIds == {None, <<>>, <<"a">>, <<".", "/", "a">>}

\* Values of the {session_id} path parameter of GET /conversation/...
\* (a path parameter is never empty and holds no "/").
PathIds == {<<"a">>}

Digit == <<"1", "2", "3", "4", "5", "6", "7", "8", "9">>

\* ChatRequest.message of request p.  The code never looks into a message
\* or an answer, so each request carries a text of its own: two turns are
\* then told apart by their content.
MessageOf(p) == "m" \o Digit[p]

\* The text the model endpoint answers request p with.
ResponseOf(p) == "r" \o Digit[p]

\* A generator that gives the same id every time.
uuid4_same(n) == <<"u", "1">>

\* str(uuid.uuid4()): the n-th id generated; uuid4 never repeats a value.
uuid4(n) == <<"u", Digit[n]>>

Reqs == 1..MaxReqs

VARIABLES
    USE_S3,              \* configuration: which backend is active
    s3,                  \* S3_BUCKET: key -> body (JSON text) or NoSuchKey
    fs,                  \* file system: resolved path -> content or NoFile
    clock,               \* the last value datetime.now() returned
    nreq,                \* number of requests this behaviour may issue
    arrived,             \* number of requests that have arrived
    generated,           \* number of uuid4() calls made
    pc,                  \* pc[p]: where request p stands
    request,             \* request[p]: the endpoint and its inputs
    session_id,          \* session_id[p]: local variable of chat / get
    conversation,        \* conversation[p]: local variable of chat / get
    loaded,              \* loaded[p]: what load_conversation returned
    messages,            \* messages[p]: what call_bedrock sent to converse
    assistant_response,  \* assistant_response[p]: local variable of chat
    offset,              \* offset[p]: file position of the open file f
    result,              \* result[p]: the HTTP response
    trace,               \* history: the calls request p made, in order
    cause,               \* history: what failed in request p ("" if nothing)
    overlapped,          \* history: another request on p's session id
                         \*          ran while p did
    saved,               \* history: per session id, the log passed to the
                         \*          last save of its stored log that completed
    returned             \* SpecBackends: what the last load returned from
                         \*          the bucket and from the files

vars == <<USE_S3, s3, fs, clock, nreq, arrived, generated, pc, request,
          session_id, conversation, loaded, messages, assistant_response,
          offset, result, trace, cause, overlapped, saved, returned>>

(* ------------------------- strings and paths -------------------------- *)

\* s.startswith(c) for a one-character c
StartsWith(s, c) == Len(s) > 0 /\ s[1] = c

\* s.endswith(c) for a one-character c
EndsWith(s, c) == Len(s) > 0 /\ s[Len(s)] = c

\* f"{session_id}.json"
get_memory_path(sid) == sid \o <<".", "j", "s", "o", "n">>

\* os.path.join(a, b): an absolute b discards a
PathJoin(a, b) ==
    IF StartsWith(b, "/") THEN b
    ELSE IF a = <<>> \/ EndsWith(a, "/") THEN a \o b
    ELSE a \o <<"/">> \o b

\* The components of a path, split at every "/".
RECURSIVE Components(_)
Components(path) ==
    IF path = <<>> THEN << <<>> >>
    ELSE LET rest == Components(Tail(path))
         IN  IF Head(path) = "/" THEN << <<>> >> \o rest
             ELSE << <<Head(path)>> \o Head(rest) >> \o Tail(rest)

IsNameComponent(c) == c # <<>> /\ c # <<".">>

\* The file a path names when the operating system resolves it: empty and
\* "." components name the directory they stand in.
Resolve(path) ==
    (IF StartsWith(path, "/") THEN << <<"/">> >> ELSE <<>>)
        \o SelectSeq(Components(path), IsNameComponent)

\* file_path = os.path.join(MEMORY_DIR, get_memory_path(session_id)), as the
\* file that open() and os.path.exists() reach through it.
file_path(sid) == Resolve(PathJoin(MEMORY_DIR, get_memory_path(sid)))

\* Every session id the handlers can come to hold.
SessionIds ==
    (CallerIds \ {None, <<>>}) \cup PathIds \cup {uuid4(n) : n \in Reqs}

Keys == {get_memory_path(sid) : sid \in SessionIds}

Files == {file_path(sid) : sid \in SessionIds}

(* ------------------------------- JSON --------------------------------- *)

LBracket == <<"[">>

RBracket == <<"]">>

\* A byte range of a file that no write has filled (reads as NUL bytes).
Hole == <<"\\0">>

Element(msg) == <<"{}", msg>>

\* json.dumps(messages, indent=2) / json.dump(messages, f, indent=2)
dumps(msgs) ==
    <<LBracket>> \o [i \in 1..Len(msgs) |-> Element(msgs[i])] \o <<RBracket>>

\* Whether json.loads accepts the text (anything else: JSONDecodeError).
IsJson(text) ==
    /\ Len(text) >= 2
    /\ text[1] = LBracket
    /\ text[Len(text)] = RBracket
    /\ \A i \in 2..(Len(text) - 1) : Len(text[i]) = 2 /\ text[i][1] = "{}"

\* json.loads(text) of an accepted text
loads(text) == [i \in 1..(Len(text) - 2) |-> text[i + 1][2]]

Message(role, content, timestamp) ==
    [role |-> role, content |-> content, timestamp |-> timestamp]

(* ------------------------------ the store ----------------------------- *)

NoSuchKey == [exists |-> FALSE, body |-> <<>>]

NoFile == [exists |-> FALSE, content |-> <<>>]

Ok(v) == [ok |-> TRUE, value |-> v, error |-> ""]

Raise(e) == [ok |-> FALSE, value |-> <<>>, error |-> e]

\* load_conversation, USE_S3 branch, on the bucket as given.
\* fault: get_object fails with a ClientError other than NoSuchKey.
load_s3(bucket, sid, fault) ==
    LET obj == bucket[get_memory_path(sid)]
    IN  IF fault THEN Raise("ClientError")
        ELSE IF ~obj.exists THEN Ok(<<>>)
        ELSE IF IsJson(obj.body) THEN Ok(loads(obj.body))
        ELSE Raise("JSONDecodeError")

\* load_conversation, local branch, on the files as given.
\* fault: open() or read() fails.
load_local(files, sid, fault) ==
    LET f == files[file_path(sid)]
    IN  IF ~f.exists THEN Ok(<<>>)
        ELSE IF fault THEN Raise("OSError")
        ELSE IF IsJson(f.content) THEN Ok(loads(f.content))
        ELSE Raise("JSONDecodeError")

\* A load that answers the empty log when reading the store raises.
load_or_empty(sid, fault) ==
    LET got == IF USE_S3 THEN load_s3(s3, sid, fault)
               ELSE load_local(fs, sid, fault)
    IN  IF got.ok THEN got ELSE Ok(<<>>)

load_conversation(sid, fault) ==
    IF USE_S3 THEN load_s3(s3, sid, fault) ELSE load_local(fs, sid, fault)

\* s3_client.put_object(Bucket, Key, Body): the object is replaced whole.
put_object(key, body) == [s3 EXCEPT ![key] = [exists |-> TRUE, body |-> body]]

\* open(file_path, "w"): the file is created, or cut to length 0.
open_w(file) == [fs EXCEPT ![file] = [exists |-> TRUE, content |-> <<>>]]

\* One write of f at its own file position: bytes before the position that
\* nobody wrote are a hole.
WriteAt(content, off, tok) ==
    IF off < Len(content) THEN [content EXCEPT ![off + 1] = tok]
    ELSE content \o [i \in 1..(off - Len(content)) |-> Hole] \o <<tok>>

write(file, off, tok) ==
    [fs EXCEPT ![file].content = WriteAt(fs[file].content, off, tok)]

\* Whether two session ids name the same stored log: the same object key,
\* or the same file.
SameLog(a, b) ==
    IF USE_S3 THEN get_memory_path(a) = get_memory_path(b)
    ELSE file_path(a) = file_path(b)

(* ------------------------------ inference ----------------------------- *)

\* conversation[:20], the oldest n messages instead of the most recent.
FirstN(conv, n) ==
    IF Len(conv) <= n THEN conv ELSE SubSeq(conv, 1, n)

\* conversation[-20:]
LastN(conv, n) ==
    IF Len(conv) <= n THEN conv ELSE SubSeq(conv, Len(conv) - n + 1, Len(conv))

BedrockMessage(role, text) == [role |-> role, content |-> <<[text |-> text]>>]

SystemMessage == BedrockMessage("user", "System: " \o prompt)

\* The list call_bedrock builds and hands to bedrock_client.converse.
call_bedrock_messages(conv, user_message) ==
    LET recent == LastN(conv, Window)
    IN  <<SystemMessage>>
            \o [i \in 1..Len(recent) |->
                   BedrockMessage(recent[i].role, recent[i].content)]
            \o <<BedrockMessage("user", user_message)>>

\* Error codes a botocore ClientError of converse can carry.
ErrorCodes == {"ValidationException", "AccessDeniedException",
               "ThrottlingException"}

\* What bedrock_client.converse does with one call: it answers with a text,
\* raises a ClientError, or raises another exception (no connection, a
\* response without text).
ConverseOutcomes(p) ==
    {[kind |-> "text", code |-> "", text |-> ResponseOf(p)]}
        \cup {[kind |-> "ClientError", code |-> c, text |-> ""] :
                 c \in ErrorCodes}
        \cup {[kind |-> "Exception", code |-> "", text |-> ""]}

HTTPException(status, detail) ==
    [type |-> "HTTPException", status_code |-> status, detail |-> detail]

Exception(text) == [type |-> "Exception", status_code |-> 0, detail |-> text]

\* The except ClientError clause of call_bedrock.
call_bedrock_except(code) ==
    IF code = "ValidationException"
        THEN HTTPException(400, "Invalid message format for Bedrock")
    ELSE IF code = "AccessDeniedException"
        THEN HTTPException(403, "Access denied to Bedrock model")
    ELSE HTTPException(500, "Bedrock error: " \o code)

\* call_bedrock(conversation, user_message), given what converse does:
\* the text returned, or the exception that leaves the function.
call_bedrock(out) ==
    IF out.kind = "text" THEN Ok(out.text)
    ELSE IF out.kind = "ClientError"
        THEN [ok |-> FALSE, value |-> "", error |-> call_bedrock_except(out.code)]
    ELSE [ok |-> FALSE, value |-> "", error |-> Exception("converse")]

\* A chat without its "except HTTPException: raise" clause: every exception
\* becomes HTTPException(500, str(e)).
chat_except_all(e) == HTTPException(500, e.detail)

\* The except clauses of chat: an HTTPException passes, anything else
\* becomes HTTPException(500, str(e)).
chat_except(e) ==
    IF e.type = "HTTPException" THEN e ELSE HTTPException(500, e.detail)

\* The except clause of get_conversation.
get_conversation_except(e) == HTTPException(500, e.detail)

\* The HTTP response FastAPI sends for a raised HTTPException.
ErrorResponse(e) ==
    [status |-> e.status_code, detail |-> e.detail, response |-> "",
     session_id |-> None, messages |-> <<>>]

\* ChatResponse(response=assistant_response, session_id=session_id)
ChatResponse(response, sid) ==
    [status |-> 200, detail |-> "", response |-> response,
     session_id |-> sid, messages |-> <<>>]

\* {"session_id": session_id, "messages": conversation}
ConversationResponse(sid, conv) ==
    [status |-> 200, detail |-> "", response |-> "",
     session_id |-> sid, messages |-> conv]

NoResponse ==
    [status |-> 0, detail |-> "", response |-> "",
     session_id |-> None, messages |-> <<>>]

NoRequest == [endpoint |-> "", message |-> "", session_id |-> None]

(* ------------------------------- Init --------------------------------- *)

NeverSaved == [any |-> FALSE, log |-> <<>>]

Saved(log) == [any |-> TRUE, log |-> log]

\* No load was made on either backend.
NoLoad == [remote |-> Ok(<<>>), local |-> Ok(<<>>)]

InitRequests ==
    /\ returned = NoLoad
    /\ arrived = 0
    /\ generated = 0
    /\ pc = [p \in Reqs |-> "new"]
    /\ request = [p \in Reqs |-> NoRequest]
    /\ session_id = [p \in Reqs |-> None]
    /\ conversation = [p \in Reqs |-> <<>>]
    /\ loaded = [p \in Reqs |-> <<>>]
    /\ messages = [p \in Reqs |-> <<>>]
    /\ assistant_response = [p \in Reqs |-> ""]
    /\ offset = [p \in Reqs |-> 0]
    /\ result = [p \in Reqs |-> NoResponse]
    /\ trace = [p \in Reqs |-> <<>>]
    /\ cause = [p \in Reqs |-> ""]
    /\ overlapped = [p \in Reqs |-> FALSE]

\* The service starts on an empty store, with either backend configured.
Init ==
    /\ USE_S3 \in BOOLEAN
    /\ s3 = [k \in Keys |-> NoSuchKey]
    /\ fs = [f \in Files |-> NoFile]
    /\ clock = 0
    /\ saved = [sid \in SessionIds |-> NeverSaved]
    /\ nreq = MaxReqs
    /\ InitRequests

Digit0 == <<"0", "1", "2", "3", "4", "5", "6", "7", "8", "9">>

\* str(i) for 0 <= i < 100
Num(i) ==
    IF i < 10 THEN Digit0[i + 1]
    ELSE Digit0[(i \div 10) + 1] \o Digit0[(i % 10) + 1]

\* A log of n messages written before the service started: turns of a user
\* and the assistant, message i with a content of its own and timestamp i.
History(n) ==
    [i \in 1..n |->
        Message(IF i % 2 = 1 THEN "user" ELSE "assistant", "h" \o Num(i), i)]

\* Lengths of the log SpecWindow starts from: none, one turn, and the
\* lengths around and above the window.
HistoryLengths == {0, 2, Window - 1, Window, Window + 1, MaxHistory}

\* The service starts on a store that holds a log of session "a" already.
InitWindow ==
    /\ USE_S3 \in BOOLEAN
    /\ \E n \in HistoryLengths :
          LET sid == <<"a">>
              text == dumps(History(n))
          IN  /\ s3 = [k \in Keys |->
                    IF USE_S3 /\ n > 0 /\ k = get_memory_path(sid)
                       THEN [exists |-> TRUE, body |-> text] ELSE NoSuchKey]
              /\ fs = [f \in Files |->
                    IF ~USE_S3 /\ n > 0 /\ f = file_path(sid)
                       THEN [exists |-> TRUE, content |-> text] ELSE NoFile]
              /\ clock = n
              /\ saved = [id \in SessionIds |->
                    IF n > 0 /\ SameLog(id, sid) THEN Saved(History(n))
                    ELSE NeverSaved]
    /\ nreq = WindowReqs
    /\ InitRequests

(* ------------------------------ requests ------------------------------ *)

\* Request p arrives and its handler settles on session id `id`: requests
\* are numbered in the order they arrive.
Arrive(p, endpoint, message, sid, id) ==
    /\ pc[p] = "new"
    /\ p = arrived + 1
    /\ p <= nreq
    /\ arrived' = p
    /\ request' = [request EXCEPT ![p] =
           [endpoint |-> endpoint, message |-> message, session_id |-> sid]]
    /\ session_id' = [session_id EXCEPT ![p] = id]
    /\ trace' = [trace EXCEPT ![p] = <<"load">>]
    /\ LET others == {q \in Reqs : /\ pc[q] \notin {"new", "done"}
                                   /\ session_id[q] = id}
       IN  overlapped' = [q \in Reqs |->
               IF q = p THEN others # {} ELSE overlapped[q] \/ q \in others]

\* The handler of request p returns or raises: the HTTP response is sent.
Finish(p, response, why) ==
    /\ pc' = [pc EXCEPT ![p] = "done"]
    /\ result' = [result EXCEPT ![p] = response]
    /\ cause' = [cause EXCEPT ![p] = why]

(* ------------------------------ POST /chat ---------------------------- *)

\* request.session_id or str(uuid.uuid4())
ResolveSessionId(sid, fresh) == IF sid = None \/ sid = <<>> THEN fresh ELSE sid

\* Whether line 170 calls uuid.uuid4().
NeedsUuid(sid) == ResolveSessionId(sid, <<"fresh">>) = <<"fresh">>

\* A chat that answers its error together with the text the model gave.
ChatRaiseWithAnswer(p, e, why) ==
    Finish(p, [ErrorResponse(chat_except(e)) EXCEPT
                  !.response = assistant_response[p],
                  !.session_id = session_id[p]], why)

\* Lines 189-193: an exception e leaves the try block of chat.
ChatRaise(p, e, why) == Finish(p, ErrorResponse(chat_except(e)), why)

\* Session ids a chat answered so far: a caller can send them again.
ReturnedIds ==
    {result[q].session_id :
        q \in {r \in Reqs : pc[r] = "done" /\ request[r].endpoint = "chat"
                                           /\ result[r].status = 200}}

\* A POST /chat arrives: lines 170-171, the session id and the load.
ChatLoad(p) ==
    /\ \E sid \in CallerIds \cup ReturnedIds, fault \in BOOLEAN :
          LET id == ResolveSessionId(sid, uuid4(generated + 1))
              got == load_conversation(id, fault)
          IN  /\ Arrive(p, "chat", MessageOf(p), sid, id)
              /\ generated' = IF NeedsUuid(sid) THEN generated + 1 ELSE generated
              /\ IF got.ok
                    THEN /\ conversation' = [conversation EXCEPT ![p] = got.value]
                         /\ loaded' = [loaded EXCEPT ![p] = got.value]
                         /\ pc' = [pc EXCEPT ![p] = "loaded"]
                         /\ UNCHANGED <<result, cause>>
                    ELSE /\ ChatRaise(p, Exception(got.error), "load")
                         /\ UNCHANGED <<conversation, loaded>>
    /\ UNCHANGED <<returned, USE_S3, s3, fs, clock, nreq, messages, assistant_response,
                   offset, saved>>

\* datetime.now(): the reading that follows reading t.  The clock never
\* goes back, and every reading is later than the one before it, which is
\* the hardest case for a claim about the order of timestamps.
now(t) == t + 1

\* Lines 174-183: the two appends, each with its own reading of the clock.
append_turn(conv, user_message, response, t) ==
    Append(Append(conv, Message("user", user_message, now(t))),
           Message("assistant", response, now(now(t))))

\* A chat that stores the user message before it calls the model, so that
\* the message stays in the store when the call fails.
ChatInferFailedAfterSave(p, e, why) ==
    /\ ChatRaise(p, e, why)
    /\ trace' = [trace EXCEPT ![p] = Append(@, "converse")]
    /\ UNCHANGED <<assistant_response, conversation, clock>>
    /\ LET text == dumps(Append(conversation[p],
                       Message("user", request[p].message, now(clock))))
       IN  IF USE_S3
              THEN /\ s3' = put_object(get_memory_path(session_id[p]), text)
                   /\ fs' = fs
              ELSE /\ fs' = [fs EXCEPT ![file_path(session_id[p])] =
                              [exists |-> TRUE, content |-> text]]
                   /\ s3' = s3

\* A chat that calls the model a second time when the first call raised.
ChatInferRetried(p, e, why) ==
    /\ ChatRaise(p, e, why)
    /\ trace' = [trace EXCEPT ![p] = @ \o <<"converse", "converse">>]
    /\ UNCHANGED <<assistant_response, conversation, clock, s3, fs>>

\* Lines 172 and 189-193: call_bedrock raised e; the turn is given up.
ChatInferFailed(p, e, why) ==
    /\ ChatRaise(p, e, why)
    /\ trace' = [trace EXCEPT ![p] = Append(@, "converse")]
    /\ UNCHANGED <<assistant_response, conversation, clock, s3, fs>>

\* Lines 172-183: the call to the model and, when it answers, the appends.
ChatInfer(p) ==
    /\ pc[p] = "loaded"
    /\ messages' = [messages EXCEPT ![p] =
           call_bedrock_messages(conversation[p], request[p].message)]
    /\ \E out \in ConverseOutcomes(p) :
          LET got == call_bedrock(out)
          IN  IF got.ok
                 THEN /\ assistant_response' =
                            [assistant_response EXCEPT ![p] = got.value]
                      /\ conversation' = [conversation EXCEPT ![p] =
                            append_turn(@, request[p].message, got.value, clock)]
                      /\ clock' = now(now(clock))
                      /\ trace' = [trace EXCEPT ![p] = @ \o <<"converse", "append">>]
                      /\ pc' = [pc EXCEPT ![p] = "save"]
                      /\ UNCHANGED <<result, cause, s3, fs>>
                 ELSE ChatInferFailed(p, got.error,
                                      IF out.kind = "ClientError" THEN out.code
                                      ELSE out.kind)
    /\ UNCHANGED <<returned, USE_S3, nreq, arrived, generated, request, session_id,
                   loaded, offset, overlapped, saved>>

\* Line 187: save_conversation returned; the response is sent.
ChatReturn(p) ==
    /\ Finish(p, ChatResponse(assistant_response[p], session_id[p]), "")
    /\ saved' = [sid \in SessionIds |->
           IF SameLog(sid, session_id[p]) THEN Saved(conversation[p])
           ELSE saved[sid]]

\* A save that reads the object again and appends the turn to what it
\* holds now, in one step, so that no turn of another request is lost.
ChatSaveS3Merging(p) ==
    /\ pc[p] = "save"
    /\ USE_S3
    /\ trace' = [trace EXCEPT ![p] = Append(@, "save")]
    /\ LET now_stored == load_s3(s3, session_id[p], FALSE)
           n == Len(conversation[p])
           merged == IF now_stored.ok
                        THEN now_stored.value \o SubSeq(conversation[p], n - 1, n)
                        ELSE conversation[p]
       IN  /\ s3' = put_object(get_memory_path(session_id[p]), dumps(merged))
           /\ Finish(p, ChatResponse(assistant_response[p], session_id[p]), "")
           /\ saved' = [sid \in SessionIds |->
                  IF SameLog(sid, session_id[p]) THEN Saved(merged)
                  ELSE saved[sid]]
    /\ UNCHANGED <<returned, USE_S3, fs, clock, nreq, arrived, generated, request,
                   session_id, conversation, loaded, messages,
                   assistant_response, offset, overlapped>>

\* Lines 185-187 with USE_S3: put_object, then the response.
\* fault: put_object raises and the object is left as it was.
ChatSaveS3(p) ==
    /\ pc[p] = "save"
    /\ USE_S3
    /\ trace' = [trace EXCEPT ![p] = Append(@, "save")]
    /\ \E fault \in BOOLEAN :
          IF fault
             THEN /\ ChatRaise(p, Exception("ClientError"), "save")
                  /\ UNCHANGED <<s3, saved>>
             ELSE /\ s3' = put_object(get_memory_path(session_id[p]),
                                      dumps(conversation[p]))
                  /\ ChatReturn(p)
    /\ UNCHANGED <<returned, USE_S3, fs, clock, nreq, arrived, generated, request,
                   session_id, conversation, loaded, messages,
                   assistant_response, offset, overlapped>>

\* Lines 95-97 without USE_S3: os.makedirs and open(file_path, "w").
\* fault: one of them raises and the file is left as it was.
ChatSaveOpen(p) ==
    /\ pc[p] = "save"
    /\ ~USE_S3
    /\ trace' = [trace EXCEPT ![p] = Append(@, "save")]
    /\ \E fault \in BOOLEAN :
          IF fault
             THEN /\ ChatRaise(p, Exception("OSError"), "save")
                  /\ UNCHANGED <<fs, offset>>
             ELSE /\ fs' = open_w(file_path(session_id[p]))
                  /\ offset' = [offset EXCEPT ![p] = 0]
                  /\ pc' = [pc EXCEPT ![p] = "dump"]
                  /\ UNCHANGED <<result, cause>>
    /\ UNCHANGED <<returned, USE_S3, s3, clock, nreq, arrived, generated, request,
                   session_id, conversation, loaded, messages,
                   assistant_response, overlapped, saved>>

\* Line 98: json.dump(messages, f, indent=2) reaches the file one buffer at
\* a time, each written at the file position of f; the last one is written
\* when f is closed, and the response follows.
\* fault: a write raises and what was written stays.
ChatSaveWrite(p) ==
    /\ pc[p] = "dump"
    /\ LET text == dumps(conversation[p])
           file == file_path(session_id[p])
       IN  \E fault \in BOOLEAN :
              IF fault
                 THEN /\ ChatRaise(p, Exception("OSError"), "save")
                      /\ UNCHANGED <<fs, offset, saved>>
                 ELSE /\ fs' = write(file, offset[p], text[offset[p] + 1])
                      /\ offset' = [offset EXCEPT ![p] = @ + 1]
                      /\ IF offset[p] + 1 = Len(text)
                            THEN ChatReturn(p)
                            ELSE UNCHANGED <<pc, result, cause, saved>>
    /\ UNCHANGED <<returned, USE_S3, s3, clock, nreq, arrived, generated, request,
                   session_id, conversation, loaded, messages,
                   assistant_response, trace, overlapped>>

(* ----------------------- GET /conversation/{id} ----------------------- *)

\* Ids a GET can name: a caller's own, or one an earlier chat generated.
GetIds == PathIds \cup {uuid4(n) : n \in 1..generated}

\* Lines 199-203: the load and the response, or the 500 of the except clause.
GetConversation(p) ==
    /\ \E sid \in GetIds, fault \in BOOLEAN :
          LET got == load_conversation(sid, fault)
          IN  /\ Arrive(p, "get", "", sid, sid)
              /\ IF got.ok
                    THEN /\ conversation' = [conversation EXCEPT ![p] = got.value]
                         /\ loaded' = [loaded EXCEPT ![p] = got.value]
                         /\ Finish(p, ConversationResponse(sid, got.value), "")
                    ELSE /\ Finish(p, ErrorResponse(
                                get_conversation_except(Exception(got.error))),
                                "load")
                         /\ UNCHANGED <<conversation, loaded>>
    /\ UNCHANGED <<returned, USE_S3, s3, fs, clock, nreq, generated, messages,
                   assistant_response, offset, saved>>

(* ------------------------------- Next --------------------------------- *)

Step(p) ==
    \/ ChatLoad(p)
    \/ ChatInfer(p)
    \/ ChatSaveS3(p)
    \/ ChatSaveOpen(p)
    \/ ChatSaveWrite(p)
    \/ GetConversation(p)

Next == \E p \in Reqs : Step(p)

Spec == Init /\ [][Next]_vars

SpecWindow == InitWindow /\ [][Next]_vars

(* ------------------- the two backends, side by side ------------------- *)

\* save_conversation, USE_S3 branch, on the bucket as given.
save_s3(bucket, sid, msgs) ==
    [bucket EXCEPT ![get_memory_path(sid)] =
        [exists |-> TRUE, body |-> dumps(msgs)]]

\* json.dump: the writes of text from position off on, one after another.
RECURSIVE WriteAll(_, _, _)
WriteAll(content, text, off) ==
    IF off >= Len(text) THEN content
    ELSE WriteAll(WriteAt(content, off, text[off + 1]), text, off + 1)

\* save_conversation, local branch, on the files as given, run to its end
\* with no other writer.
save_local(files, sid, msgs) ==
    [files EXCEPT ![file_path(sid)] =
        [exists |-> TRUE, content |-> WriteAll(<<>>, dumps(msgs), 0)]]

\* Logs the saves are given: none, one turn, two turns.
BackendLogs == {History(n) : n \in {0, 2, 4}}

requestVars ==
    <<arrived, generated, pc, request, session_id, conversation, loaded,
      messages, assistant_response, offset, result, trace, cause, overlapped>>

\* Two services start on empty stores, one configured with USE_S3 (its
\* store is s3), one without (its store is fs).  The variable USE_S3 is
\* not read here.
InitBackends ==
    /\ USE_S3 = FALSE
    /\ s3 = [k \in Keys |-> NoSuchKey]
    /\ fs = [f \in Files |-> NoFile]
    /\ clock = 0
    /\ saved = [sid \in SessionIds |-> NeverSaved]
    /\ nreq = 0
    /\ InitRequests

\* save_conversation(sid, msgs), called on both services.
SaveBoth ==
    /\ \E sid \in SessionIds, msgs \in BackendLogs :
          /\ s3' = save_s3(s3, sid, msgs)
          /\ fs' = save_local(fs, sid, msgs)
    /\ UNCHANGED <<returned, USE_S3, clock, nreq, saved, requestVars>>

\* load_conversation(sid), called on both services.
LoadBoth ==
    /\ \E sid \in SessionIds :
          returned' = [remote |-> load_s3(s3, sid, FALSE),
                       local |-> load_local(fs, sid, FALSE)]
    /\ UNCHANGED <<USE_S3, s3, fs, clock, nreq, saved, requestVars>>

NextBackends == SaveBoth \/ LoadBoth

SpecBackends == InitBackends /\ [][NextBackends]_vars

(* ------------- two writers of one file, write by write ---------------- *)

\* The text json.dump writes for one message, in the pieces in which it
\* can reach the file: the longer the content, the more pieces.  The first
\* piece holds the role, the last one the timestamp.
Pieces(msg) ==
    [i \in 1..Len(msg.content) |->
        IF i = 1 THEN <<"{", msg>>
        ELSE IF i = Len(msg.content) THEN <<"}", msg>>
        ELSE <<"..", msg>>]

RECURSIVE AllPieces(_)
AllPieces(msgs) ==
    IF msgs = <<>> THEN <<>> ELSE Pieces(Head(msgs)) \o AllPieces(Tail(msgs))

\* json.dump(messages, f, indent=2), piece by piece.
dump_pieces(msgs) == <<LBracket>> \o AllPieces(msgs) \o <<RBracket>>

\* The message json.load reads from an element that begins with piece h
\* and ends with piece t.
JoinPieces(h, t) ==
    [role |-> h[2].role,
     content |-> IF h[2] = t[2] THEN h[2].content
                 ELSE h[2].content \o "~" \o t[2].content,
     timestamp |-> t[2].timestamp]

\* json.load on the pieces of text that follow the opening bracket: the
\* pieces must spell elements, each one opened by a "{" piece, continued by
\* ".." pieces and closed by a "}" piece, and then the closing bracket; an
\* element has the fields its opening and closing pieces spell.
ParsePieces(text) ==
    LET n == Len(text)
        inner == 2..(n - 1)
        kind(i) == text[i][1]
        closes == {i \in inner : kind(i) = "}"}
        opening(c) == CHOOSE j \in inner :
                         /\ j < c /\ kind(j) = "{"
                         /\ \A k \in (j + 1)..(c - 1) : kind(k) = ".."
        close(k) == CHOOSE c \in closes :
                         Cardinality({j \in closes : j <= c}) = k
        wellFormed ==
            /\ n >= 2 /\ text[n] = RBracket
            /\ \A i \in inner : Len(text[i]) = 2
            /\ \A i \in inner :
                  IF kind(i) = "{" THEN i = 2 \/ kind(i - 1) = "}"
                  ELSE i > 2 /\ kind(i - 1) \in {"{", ".."}
            /\ n > 2 => kind(n - 1) = "}"
    IN  IF wellFormed
           THEN Ok([k \in 1..Cardinality(closes) |->
                       JoinPieces(text[opening(close(k))], text[close(k)])])
           ELSE Raise("JSONDecodeError")

\* load_conversation, local branch, on a file written piece by piece.
load_pieces(files, sid) ==
    LET f == files[file_path(sid)]
    IN  IF ~f.exists THEN Ok(<<>>)
        ELSE IF f.content # <<>> /\ f.content[1] = LBracket
            THEN ParsePieces(f.content)
        ELSE Raise("JSONDecodeError")

\* The two requests that write.
Writers == {1, 2}

\* The message of writer p: the second writer's is longer than the first's.
LongMessageOf(p) == IF p = 1 THEN MessageOf(p) ELSE MessageOf(p) \o "--"

\* Stored logs the writers start from: none, and a full window of turns.
WriterHistories == {0, Window}

\* Two POST /chat on session "a" of the local backend have loaded the same
\* stored log of whole turns, were answered and appended their turns; both
\* are about to call save_conversation.
InitWriters ==
    /\ USE_S3 = FALSE
    /\ s3 = [k \in Keys |-> NoSuchKey]
    /\ returned = NoLoad
    /\ nreq = 2 /\ arrived = 2 /\ generated = 0
    /\ \E n \in WriterHistories :
          LET sid == <<"a">>
          IN  /\ fs = [f \in Files |->
                    IF n > 0 /\ f = file_path(sid)
                       THEN [exists |-> TRUE, content |-> dump_pieces(History(n))]
                       ELSE NoFile]
              /\ clock = n + 4
              /\ saved = [id \in SessionIds |->
                    IF n > 0 /\ file_path(id) = file_path(sid)
                       THEN Saved(History(n)) ELSE NeverSaved]
              /\ pc = [p \in Reqs |-> IF p \in Writers THEN "save" ELSE "new"]
              /\ request = [p \in Reqs |->
                    IF p \in Writers
                       THEN [endpoint |-> "chat", message |-> LongMessageOf(p),
                             session_id |-> sid]
                       ELSE NoRequest]
              /\ session_id = [p \in Reqs |-> IF p \in Writers THEN sid ELSE None]
              /\ loaded = [p \in Reqs |-> IF p \in Writers THEN History(n) ELSE <<>>]
              /\ conversation = [p \in Reqs |->
                    IF p \in Writers
                       THEN append_turn(History(n), LongMessageOf(p),
                                        ResponseOf(p), n + 2 * (p - 1))
                       ELSE <<>>]
              /\ messages = [p \in Reqs |->
                    IF p \in Writers
                       THEN call_bedrock_messages(History(n), LongMessageOf(p))
                       ELSE <<>>]
    /\ assistant_response = [p \in Reqs |->
          IF p \in Writers THEN ResponseOf(p) ELSE ""]
    /\ offset = [p \in Reqs |-> 0]
    /\ result = [p \in Reqs |-> NoResponse]
    /\ trace = [p \in Reqs |->
          IF p \in Writers THEN <<"load", "converse", "append">> ELSE <<>>]
    /\ cause = [p \in Reqs |-> ""]
    /\ overlapped = [p \in Reqs |-> p \in Writers]

\* Lines 95-97: open(file_path, "w").
WriterOpen(p) ==
    /\ pc[p] = "save"
    /\ fs' = open_w(file_path(session_id[p]))
    /\ offset' = [offset EXCEPT ![p] = 0]
    /\ pc' = [pc EXCEPT ![p] = "dump"]
    /\ trace' = [trace EXCEPT ![p] = Append(@, "save")]
    /\ UNCHANGED <<returned, USE_S3, s3, clock, nreq, arrived, generated,
                   request, session_id, conversation, loaded, messages,
                   assistant_response, result, cause, overlapped, saved>>

\* Line 98: the next piece of json.dump reaches the file; after the last
\* one the file is closed and the response is sent.
WriterWrite(p) ==
    /\ pc[p] = "dump"
    /\ LET text == dump_pieces(conversation[p])
       IN  /\ fs' = write(file_path(session_id[p]), offset[p],
                          text[offset[p] + 1])
           /\ offset' = [offset EXCEPT ![p] = @ + 1]
           /\ IF offset[p] + 1 = Len(text)
                 THEN ChatReturn(p)
                 ELSE UNCHANGED <<pc, result, cause, saved>>
    /\ UNCHANGED <<returned, USE_S3, s3, clock, nreq, arrived, generated,
                   request, session_id, conversation, loaded, messages,
                   assistant_response, trace, overlapped>>

NextWriters == \E p \in Writers : WriterOpen(p) \/ WriterWrite(p)

SpecWriters == InitWriters /\ [][NextWriters]_vars

(* ===================== properties of the service ====================== *)

Range(seq) == {seq[i] : i \in 1..Len(seq)}

\* What a load of session id sid returns from the store as given (a log, or
\* the error).
StoredLog(bucket, files, sid) ==
    IF USE_S3 THEN load_s3(bucket, sid, FALSE) ELSE load_local(files, sid, FALSE)

\* The persisted log of session id sid in this state.
PersistedLog(sid) == StoredLog(s3, fs, sid)

\* The ways the inference step fails: the three ClientError codes and any
\* other exception.
InferenceFailures == ErrorCodes \cup {"Exception"}

InferenceFailed(p) == pc[p] = "done" /\ cause[p] \in InferenceFailures

\* C1. Failure containment: no step of a POST /chat request whose inference
\* step fails changes the store, whatever the kind of the failure, so the
\* persisted log of its session is after the request what it was before;
\* the request calls load and the model and never save_conversation.
C1_FailureContainment ==
    [][\A p \in Reqs :
          /\ (pc[p] \in {"new", "loaded"} /\ pc'[p] # pc[p])
                => (s3' = s3 /\ fs' = fs)
          /\ (pc[p] = "loaded" /\ pc'[p] = "done")
                => /\ cause'[p] \in InferenceFailures
                   /\ trace'[p] = <<"load", "converse">>
                   /\ result'[p].status \in {400, 403, 500}]_vars

\* C1 witness: an inference step has failed on a session whose log holds a
\* turn, and the log is still the one the request loaded.
C1_Witness ==
    \E p \in Reqs :
        /\ InferenceFailed(p)
        /\ loaded[p] # <<>>
        /\ PersistedLog(session_id[p]) = Ok(loaded[p])

\* Whether u, a are a turn: the user's message, then the answer returned.
IsTurnOf(message, response, u, a) ==
    /\ u.role = "user" /\ u.content = message
    /\ a.role = "assistant" /\ a.content = response

Succeeded(p) ==
    pc[p] = "done" /\ request[p].endpoint = "chat" /\ result[p].status = 200

\* Whether log `after` is log `before` followed by the two messages of
\* the turn, the user's first.
IsTurnAppended(message, response, before, after) ==
    LET n == Len(before)
    IN  /\ Len(after) = n + 2
        /\ SubSeq(after, 1, n) = before
        /\ IsTurnOf(message, response, after[n + 1], after[n + 2])

\* C2. Successful turn effect: when a POST /chat succeeds and no other
\* request on the same session id ran while it did, the persisted log of
\* its session is, as the request ends, the log persisted when it began
\* followed by exactly two messages: the user message with the content
\* sent, then the assistant message with the response returned.
C2_SuccessfulTurn ==
    [][\A p \in Reqs :
          (/\ pc[p] # "done" /\ pc'[p] = "done"
           /\ request[p].endpoint = "chat"
           /\ result'[p].status = 200
           /\ ~overlapped[p])
             => LET after == StoredLog(s3', fs', session_id[p])
                IN  /\ after.ok
                    /\ IsTurnAppended(request[p].message, result'[p].response,
                                      loaded[p], after.value)]_vars

(* ---------------------------- context window -------------------------- *)

Min(a, b) == IF a <= b THEN a ELSE b

\* Request p has called the model (with or without an answer).
CalledModel(p) ==
    request[p].endpoint = "chat" /\ "converse" \in Range(trace[p])

\* What the model is sent for a stored message.
AsSent(msg) == BedrockMessage(msg.role, msg.content)

\* C3. Context window: whenever a chat has called the model on a stored
\* history of n messages with the new user message m, the list it sent
\* has min(n, 20) + 2 entries: the system instruction first, then the last
\* min(n, 20) stored messages in stored order, then m; no stored message
\* older than the 20 most recent is in it.
C3_ContextWindow ==
    \A p \in Reqs :
        CalledModel(p) =>
            LET stored == loaded[p]
                n == Len(stored)
                k == Min(n, 20)
                sent == messages[p]
            IN  /\ Len(sent) = k + 2
                /\ sent[1] = BedrockMessage("user", "System: " \o prompt)
                /\ sent[k + 2] = BedrockMessage("user", request[p].message)
                /\ \A i \in 1..k : sent[i + 1] = AsSent(stored[n - k + i])
                /\ \A j \in 1..(n - k) : AsSent(stored[j]) \notin Range(sent)

\* C3 witness: a chat on a history longer than the window has called the
\* model with 22 entries.
C3_Witness ==
    \E p \in Reqs :
        CalledModel(p) /\ Len(loaded[p]) > 20 /\ Len(messages[p]) = 22

(* ----------------------------- concurrency ---------------------------- *)

\* Whether the turn of request p is in log: its user message directly
\* followed by its answer.
HasTurn(p, log) ==
    \E i \in 1..(Len(log) - 1) :
        IsTurnOf(request[p].message, result[p].response, log[i], log[i + 1])

\* Two chats on one session id that loaded the same log and both returned
\* a response.
BothSucceeded(p, q) ==
    /\ p # q
    /\ Succeeded(p) /\ Succeeded(q)
    /\ session_id[p] = session_id[q]
    /\ loaded[p] = loaded[q]

\* C4. Lost update on one session: when two POST /chat on the same session
\* id loaded the same log and both returned a response with status 200,
\* the persisted log never holds the turns of both: one of the two turns
\* is lost, and no error was reported for it.
C4_LostUpdate ==
    \A p, q \in Reqs :
        BothSucceeded(p, q) =>
            LET log == PersistedLog(session_id[p])
            IN  log.ok => ~(HasTurn(p, log.value) /\ HasTurn(q, log.value))

\* C4 witness: both requests returned a response, the persisted log is the
\* one the request that saved last passed to its save, it holds the turn of
\* that request and not the turn of the other.
C4_Witness ==
    \E p, q \in Reqs :
        /\ BothSucceeded(p, q)
        /\ saved[session_id[q]] = Saved(conversation[q])
        /\ PersistedLog(session_id[q]) = Ok(conversation[q])
        /\ HasTurn(q, conversation[q])
        /\ ~HasTurn(p, conversation[q])
        /\ result[p].response # "" /\ result[q].response # ""

\* C5. Session isolation: no step changes the persisted log of a session
\* id unless a request on that very session id is saving.
C5_SessionIsolation ==
    [][\A b \in SessionIds :
          StoredLog(s3', fs', b) # StoredLog(s3, fs, b)
             => \E p \in Reqs : session_id[p] = b /\ pc[p] \in {"save", "dump"}]_vars

\* The turn of some request: its user message, then its answer.
IsWholeTurn(u, a) ==
    \E p \in Reqs : IsTurnOf(MessageOf(p), ResponseOf(p), u, a)

\* C6. Whole-turn invariant: starting from an empty store, every persisted
\* log that can be loaded has even length and is made of turns, each the
\* user message of a request directly followed by the assistant message of
\* the same request.
C6_WholeTurns ==
    \A sid \in SessionIds :
        LET log == PersistedLog(sid)
        IN  log.ok =>
               /\ Len(log.value) % 2 = 0
               /\ \A i \in 1..Len(log.value) :
                     i % 2 = 1 => IsWholeTurn(log.value[i], log.value[i + 1])

(* ------------------------- errors and read-back ----------------------- *)

\* No request on session id sid has called save_conversation so far.
NothingSavedUnder(sid) ==
    \A q \in Reqs : session_id[q] = sid => "save" \notin Range(trace[q])

\* The response of a request whose load failed because the store did.
IsStoreFailure(response) ==
    response.status = 500 /\ response.detail \in {"ClientError", "OSError"}

\* C7. Unknown session is not an error: when a request loads the log of a
\* session id under which nothing was ever saved, a GET /conversation
\* answers {session_id: id, messages: []} with status 200 and a POST /chat
\* goes on with the empty log, unless the store itself failed, which is
\* the only case of a 500.
C7_UnknownSession ==
    [][\A p \in Reqs :
          (pc[p] = "new" /\ pc'[p] # "new" /\ NothingSavedUnder(session_id'[p]))
             => \/ /\ request'[p].endpoint = "get"
                   /\ result'[p] = ConversationResponse(session_id'[p], <<>>)
                \/ /\ request'[p].endpoint = "chat"
                   /\ pc'[p] = "loaded" /\ loaded'[p] = <<>>
                \/ IsStoreFailure(result'[p])]_vars

\* C8. Error mapping of POST /chat: a request that has ended has a success
\* with the response and the session id, or an error status; the status is
\* 400 exactly when the provider reported ValidationException, 403 exactly
\* when it reported AccessDeniedException, and 500 for every other failure:
\* another provider error, an unexpected exception, a failure of the load
\* or of the save.
C8_ErrorMapping ==
    \A p \in Reqs :
        (pc[p] = "done" /\ request[p].endpoint = "chat") =>
            /\ result[p].status \in {200, 400, 403, 500}
            /\ result[p].status = 200 <=> cause[p] = ""
            /\ result[p].status = 400 <=> cause[p] = "ValidationException"
            /\ result[p].status = 403 <=> cause[p] = "AccessDeniedException"
            /\ result[p].status = 500 <=>
                  cause[p] \in {"ThrottlingException", "Exception", "load", "save"}
            /\ result[p].status = 200 =>
                  /\ result[p].response = assistant_response[p]
                  /\ result[p].session_id = session_id[p]

\* C8 witness: one chat ended with 400 after a ValidationException, another
\* with 500 after its save failed.
C8_Witness ==
    \E p, q \in Reqs :
        /\ pc[p] = "done" /\ cause[p] = "ValidationException"
        /\ result[p].status = 400
        /\ pc[q] = "done" /\ cause[q] = "save" /\ result[q].status = 500

\* Whether log was passed to a save of the stored log of session id sid.
WasSaved(sid, log) ==
    \E p \in Reqs :
        /\ SameLog(session_id[p], sid)
        /\ "save" \in Range(trace[p])
        /\ log = conversation[p]

\* C9. Read-back invariant: starting from an empty store, a load that
\* returns a result returns a log that was passed to a save of that
\* session, or the empty log; it never returns anything else, whether a
\* save failed part-way or is still in progress.
C9_ReadBack ==
    \A sid \in SessionIds :
        LET log == PersistedLog(sid)
        IN  log.ok => (log.value = <<>> \/ WasSaved(sid, log.value))

\* C10. Session id resolution: a POST /chat that carries a session_id,
\* whatever string it is, uses that value as its session id.
C10_SessionIdVerbatim ==
    \A p \in Reqs :
        (request[p].endpoint = "chat" /\ request[p].session_id # None)
            => session_id[p] = request[p].session_id

(* ------------------------------ reading ------------------------------- *)

\* The step is the GET /conversation of request p.
IsGetStep(p) ==
    pc[p] = "new" /\ pc'[p] = "done" /\ request'[p].endpoint = "get"

\* The step completes a save of request p with success.
IsSuccessfulSave(p) ==
    /\ pc[p] \in {"save", "dump"} /\ pc'[p] = "done"
    /\ result'[p].status = 200

\* C11. Read idempotence: a GET /conversation never modifies the store and
\* returns the full persisted log; what a GET of a session id would return
\* changes only in a step that completes a successful chat save on the
\* stored log of that id, so two GETs with no such save in between are
\* answered alike.
C11_ReadIdempotence ==
    [][/\ \A p \in Reqs :
             IsGetStep(p) =>
                 /\ s3' = s3 /\ fs' = fs
                 /\ result'[p].status = 200 =>
                       Ok(result'[p].messages) = StoredLog(s3, fs, session_id'[p])
       /\ \A sid \in SessionIds :
             StoredLog(s3', fs', sid) # StoredLog(s3, fs, sid)
                => \E p \in Reqs :
                      SameLog(session_id[p], sid) /\ IsSuccessfulSave(p)]_vars

\* C12. Backend equivalence: after any sequence of saves and loads applied
\* to both backends alike, a load returns the same result from the
\* local-file backend as from the remote-object backend.
C12_BackendEquivalence == returned.local = returned.remote

(* --------------------------- steps of a chat -------------------------- *)

\* How many times call occurs in the calls a request made.
Count(calls, call) == Cardinality({i \in 1..Len(calls) : calls[i] = call})

\* The save of chat request p failed.
SaveFailed(p) ==
    pc[p] = "done" /\ request[p].endpoint = "chat" /\ cause[p] = "save"

\* C13. Persistence failure after a successful model call: when
\* save_conversation fails after the model answered, the POST /chat ends
\* with status 500, neither the assistant text nor the session id is in
\* the response, and the save was called once, not again.
C13_SaveFailure ==
    \A p \in Reqs :
        SaveFailed(p) =>
            /\ assistant_response[p] = ResponseOf(p)
            /\ result[p].status = 500
            /\ result[p].response = ""
            /\ result[p].session_id = None
            /\ ResponseOf(p) \notin {result[p].detail, result[p].response}
            /\ Count(trace[p], "save") = 1

\* C13 witness: a chat whose model call answered and whose save failed.
C13_Witness ==
    \E p \in Reqs :
        SaveFailed(p) /\ assistant_response[p] # "" /\ result[p].status = 500

(* --------------------------- generated ids ---------------------------- *)

\* The step is the arrival of POST /chat request p: session id and load.
IsChatLoadStep(p) ==
    pc[p] = "new" /\ pc'[p] # "new" /\ request'[p].endpoint = "chat"

\* Chat request q came without session_id and was answered with one.
GotFreshId(q) == Succeeded(q) /\ request[q].session_id = None

\* C14. Fresh session on omitted id: a POST /chat without session_id gets
\* a session id that no earlier request used and that has no persisted
\* log, so its turn starts from the empty log; a later POST /chat that
\* carries the id returned uses that id and loads what is persisted under
\* it, which is the turn of the first request when no one else used the id.
C14_FreshSession ==
    [][\A p \in Reqs :
          IsChatLoadStep(p) =>
             /\ request'[p].session_id = None =>
                   /\ \A q \in Reqs \ {p} : session_id[q] # session_id'[p]
                   /\ StoredLog(s3, fs, session_id'[p]) = Ok(<<>>)
                   /\ pc'[p] = "loaded" => loaded'[p] = <<>>
             /\ \A q \in Reqs \ {p} :
                   (GotFreshId(q) /\ request'[p].session_id = result[q].session_id)
                      => /\ session_id'[p] = session_id[q]
                         /\ pc'[p] = "loaded" =>
                               /\ Ok(loaded'[p]) = StoredLog(s3, fs, session_id[q])
                               /\ (\A r \in Reqs \ {p, q} :
                                      session_id[r] # session_id[q])
                                     => loaded'[p] = conversation[q]]_vars

\* C14 witness: a chat without session_id was answered, and a later chat
\* that carries the id returned has loaded the turn of the first.
C14_Witness ==
    \E p, q \in Reqs :
        /\ p # q /\ GotFreshId(q)
        /\ request[p].endpoint = "chat"
        /\ request[p].session_id = result[q].session_id
        /\ pc[p] \notin {"new", "done"}
        /\ loaded[q] = <<>>
        /\ Len(loaded[p]) = 2 /\ loaded[p] = conversation[q]

\* Whether a is the beginning of b.
IsPrefix(a, b) == Len(a) <= Len(b) /\ SubSeq(b, 1, Len(a)) = a

\* C15. Step ordering within one POST /chat: the calls a request made are
\* a beginning of load, inference, append, save, so each happens at most
\* once and in that order; nothing follows an inference call that failed,
\* and save is called only when the inference call returned a text.
C15_StepOrder ==
    \A p \in Reqs :
        request[p].endpoint = "chat" =>
            /\ IsPrefix(trace[p], <<"load", "converse", "append", "save">>)
            /\ Count(trace[p], "converse") <= 1
            /\ Count(trace[p], "save") <= 1
            /\ "append" \in Range(trace[p]) <=> assistant_response[p] # ""
            /\ "save" \in Range(trace[p]) =>
                  /\ assistant_response[p] = ResponseOf(p)
                  /\ cause[p] \notin InferenceFailures

\* C15 witness: a chat that made all four calls and was answered.
C15_Witness ==
    \E p \in Reqs :
        Succeeded(p) /\ trace[p] = <<"load", "converse", "append", "save">>

(* ---------------------------- log contents ---------------------------- *)

\* The step ends chat request p, which had loaded a log.
IsChatEnd(p) ==
    /\ pc[p] # "done" /\ pc'[p] = "done"
    /\ request[p].endpoint = "chat"
    /\ cause'[p] # "load"

\* C16. Append-only log: when a POST /chat that no other request on its
\* session id overlapped has ended, with or without success, the persisted
\* log of its session still begins with the log that was persisted before
\* it: no message once persisted was modified, reordered or removed.
C16_AppendOnly ==
    [][\A p \in Reqs :
          (IsChatEnd(p) /\ ~overlapped[p])
             => LET after == StoredLog(s3', fs', session_id[p])
                IN  after.ok /\ IsPrefix(loaded[p], after.value)]_vars

\* C17. Chronological order: with a clock that never goes backwards, the
\* timestamps of every persisted log that can be loaded are non-decreasing
\* in log order, in every reachable state.
C17_ChronologicalOrder ==
    \A sid \in SessionIds :
        LET log == PersistedLog(sid)
        IN  log.ok =>
               \A i, j \in 1..Len(log.value) :
                   i < j => log.value[i].timestamp <= log.value[j].timestamp

(* ---------------------------- failed loads ---------------------------- *)

\* C18. Load failure stops the turn: when load_conversation fails inside
\* a POST /chat, because the store raised or the stored log cannot be
\* read, the request ends at once with status 500, the model is never
\* called, and nothing is written: the store is left as it was.
C18_LoadFailure ==
    [][\A p \in Reqs :
          /\ IsChatLoadStep(p) =>
                /\ s3' = s3 /\ fs' = fs
                /\ ~StoredLog(s3, fs, session_id'[p]).ok => cause'[p] = "load"
          /\ (request'[p].endpoint = "chat" /\ cause'[p] = "load") =>
                /\ pc'[p] = "done"
                /\ result'[p].status = 500
                /\ trace'[p] = <<"load">>
                /\ messages'[p] = <<>>
                /\ assistant_response'[p] = ""]_vars

\* C18 witness: a chat ended with 500 at its load, on a stored log that
\* cannot be read.
C18_Witness ==
    \E p \in Reqs :
        /\ pc[p] = "done" /\ request[p].endpoint = "chat"
        /\ cause[p] = "load" /\ result[p].status = 500
        /\ result[p].detail = "JSONDecodeError"

(* -------------------------- window and turns -------------------------- *)

\* The stored messages among what call_bedrock sends for the stored log.
WindowSlice(log) ==
    LET sent == call_bedrock_messages(log, "m")
    IN  SubSeq(sent, 2, Len(sent) - 1)

\* C19. The window never splits a turn: for every stored log that can be
\* loaded, the slice of it sent to the model is empty, or it begins with a
\* user message, ends with an assistant message and is made of whole
\* turns, at most 10.
C19_WindowOfTurns ==
    LET got == load_pieces(fs, <<"a">>)
        slice == WindowSlice(got.value)
    IN  got.ok =>
           \/ slice = <<>>
           \/ /\ slice[1].role = "user"
              /\ slice[Len(slice)].role = "assistant"
              /\ Len(slice) % 2 = 0
              /\ Len(slice) <= 20

====
